---- MODULE Spec2Model ----
(***************************************************************************)
(* Model of the PMM Assistant front end (static/js/app.js): the step-1     *)
(* question wizard of class PMMAssistant, its validator round trips, the   *)
(* finalization (saveStep1Responses, generatePMMPlan) and the hand-off to  *)
(* the chat backend.                                                       *)
(*                                                                         *)
(* A JavaScript string is modelled as a sequence of chunks: the chunk " "  *)
(* is white space, every other chunk is a run of text without leading or   *)
(* trailing white space.  The empty string is <<>>.                        *)
(*                                                                         *)
(* An async method is one process per invocation: it runs atomically from  *)
(* one await to the next, so each action below is the code between two     *)
(* awaits, and the invocations that are suspended are the bag calls.       *)
(***************************************************************************)
EXTENDS Integers, Sequences, FiniteSets, Bags, TLC

\* ------------------------------------------------------------------ bounds

\* How many times the user presses Enter or clicks the send button.
MaxSends == 6

\* How many fetch requests may be outstanding at the same time.
MaxPending == 2

\* ------------------------------------------------------------ JS strings

Str(s) == <<s>>

EmptyString == <<>>

\* A send that forgets .trim() (mutant of Trim).
NoTrim(s) == s

RECURSIVE TrimStart(_)
TrimStart(s) == IF s # <<>> /\ Head(s) = " " THEN TrimStart(Tail(s)) ELSE s

RECURSIVE TrimEnd(_)
TrimEnd(s) ==
    IF s # <<>> /\ s[Len(s)] = " " THEN TrimEnd(SubSeq(s, 1, Len(s) - 1)) ELSE s

\* String.prototype.trim
Trim(s) == TrimEnd(TrimStart(s))

\* ------------------------------------------------------------- questions

NoDependency == <<>>

Question(id, question, type, options, required, conditional, depends_on, depends_value) ==
    [ id |-> id, question |-> question, type |-> type, options |-> options,
      required |-> required, conditional |-> conditional,
      depends_on |-> depends_on, depends_value |-> depends_value ]

\* The list startChatMode assigns to this.questions.
Step1Questions ==
    << Question("company_name", "What is your company name?", "text",
                <<>>, TRUE, FALSE, "", NoDependency),
       Question("company_description",
                "Please provide a brief description of what your company does.",
                "textarea", <<>>, TRUE, FALSE, "", NoDependency),
       Question("customer_description",
                "Please provide a brief description of who your customers are.",
                "textarea", <<>>, TRUE, FALSE, "", NoDependency),
       Question("positioning_experience",
                "Are you doing the positioning and messaging exercise for the first time, or are you repositioning an existing brand?",
                "select", <<"First time", "Repositioning existing brand">>,
                TRUE, FALSE, "", NoDependency),
       Question("company_scope",
                "Are you doing this exercise for the whole company or a specific segment/product?",
                "select", <<"Whole company", "Specific segment/product">>,
                TRUE, FALSE, "", NoDependency),
       Question("product_name",
                "What is the name of the specific product you're doing this exercise for?",
                "text", <<>>, FALSE, TRUE, "company_scope",
                Str("Specific segment/product")) >>

\* The (0-based) index of the question with this id in the list.
IndexOf(id) ==
    (CHOOSE k \in 1..Len(Step1Questions) : Step1Questions[k].id = id) - 1

\* What the user may have typed into #chat-input when a send is triggered:
\* nothing, white space, a name, and, when the question on display is the
\* company_scope question, either of its two options.
RawInputs(index) ==
    { <<>>, <<" ">>, <<" ", "Acme", " ">> } \cup
    IF index = IndexOf("company_scope")
    THEN { <<" ", "Whole company">>, <<"Specific segment/product", " ">> }
    ELSE {}

\* --------------------------------------------------------- chat messages

WelcomeMessage == "Welcome to the PMM Assistant!"
ClarifyMessage == "I need a more detailed response."
LoadingMessage == "Generating your personalized positioning and messaging strategy..."
PlanMessage == "data.plan"
FallbackMessage == "Great! You've completed Step 1: Context Gathering & Planning."
Step2Message == "Do you have existing user personas or customer research documents?"
ChatResponseMessage == "data.response"
ApologyMessage == "I apologize, but I encountered an error. Please try again."
SelectFileMessage == "Please select a file to upload."
UploadedMessage == "Document uploaded successfully!"
UploadErrorMessage == "Sorry, there was an error uploading your document. Please try again."
ResearchingMessage == "Conducting automated competitor research..."
ResearchResultsMessage == "Competitor Research Results: data.research_results"
ResearchUndefinedMessage == "Competitor Research Results: undefined"
ResearchErrorMessage == "Sorry, there was an error conducting the research. Please try again."
Step3Message == "Excellent! Step 2 is complete."
TodoMessage == "data.todo_list"
TodoErrorMessage == "Sorry, there was an error generating the research plan. Please try again."
AskResearchMessage == "Would you like me to conduct automated competitor research?"

\* ------------------------------------------------------------ responses
\* this.responses is a JS object with string keys: its entries keep the order
\* in which the keys were first assigned, and assigning to a key that exists
\* replaces the value in place.  It is a sequence of [id, value] records.

Keys(r) == { r[k].id : k \in 1..Len(r) }

HasKey(r, id) == id \in Keys(r)

Get(r, id) == (CHOOSE k \in 1..Len(r) : r[k].id = id)

Value(r, id) == r[Get(r, id)].value

Put(r, id, v) ==
    IF HasKey(r, id)
    THEN [r EXCEPT ![Get(r, id)] = [id |-> id, value |-> v]]
    ELSE Append(r, [id |-> id, value |-> v])

\* ---------------------------------------------------------------- state

VARIABLES
    initPc,                \* where init() is: "startWorkflow" (awaiting) or "done"
    listening,             \* setupEventListeners has installed the two listeners
    isInChatMode,          \* this.isInChatMode
    currentStep,           \* this.currentStep
    currentQuestionIndex,  \* this.currentQuestionIndex (0-based, as in the code)
    questions,             \* this.questions
    responses,             \* this.responses
    calls,                 \* bag of suspended sendChatMessage/handleStep1Question invocations
    timers,                \* pending setTimeout callbacks of generatePMMPlan
    chatMessages,          \* texts of the assistant messages in #chat-messages
    chatTail,              \* text of the newest assistant message in #chat-messages
    sends,                 \* history: number of sendChatMessage invocations so far
    skipped,               \* history: indices passed over at line 183
    accepted,              \* history: number of answers stored at line 166
    uploadSections,        \* number of .document-upload-section elements in the page
    stepTimers,            \* pending setTimeout callbacks of step 2, by kind
    last                   \* history: the step taken last

vars ==
    << initPc, listening, isInChatMode, currentStep, currentQuestionIndex, questions,
       responses, calls, timers, chatMessages, chatTail, sends, skipped, accepted,
       uploadSections, stepTimers, last >>

\* A suspended invocation.  pc is the await it is suspended at; q is the index
\* of the const currentQuestion of handleStep1Question (line 151); entries is
\* what is left of Object.entries(this.responses) in saveStep1Responses, its
\* head being the entry whose fetch is outstanding.
Call(pc, q, message, entries) ==
    [ pc |-> pc, q |-> q, message |-> message, entries |-> entries ]

Event(op, q, message, reply) ==
    [ op |-> op, q |-> q, message |-> message, reply |-> reply ]

NoQuestion == 0 - 1

\* What a fetch of /api/validate-response followed by response.json() gives.
ValidatorReplies == { "is_valid_true", "is_valid_false", "is_valid_missing",
                      "not_json", "network_error" }

WorkflowReplies == { "json", "not_json", "network_error" }

SinkReplies == { "response", "network_error" }

PlanReplies == { "plan", "plan_missing", "not_json", "network_error" }

ChatReplies == { "response", "response_missing", "not_json", "network_error" }

UploadReplies == { "json", "not_json", "network_error" }

\* What a fetch of /api/conduct-competitor-research followed by
\* response.json() gives; a JSON body without research_results is what an
\* error status usually carries.
ResearchReplies == { "research_results", "research_results_missing", "not_json",
                     "network_error" }

TodoReplies == { "todo_list", "todo_list_missing", "not_json", "network_error" }

\* addChatMessage('assistant', text) for each text of the sequence, in order.
addChatMessages(texts) ==
    /\ chatMessages' = chatMessages \cup { texts[k] : k \in 1..Len(texts) }
    /\ chatTail' = texts[Len(texts)]

\* A constructor that installs the listeners before init() has run (mutant
\* of Init).
InitListening ==
    /\ initPc = "startWorkflow"
    /\ listening = TRUE
    /\ isInChatMode = FALSE
    /\ currentStep = 1
    /\ currentQuestionIndex = 0
    /\ questions = <<>>
    /\ responses = <<>>
    /\ calls = EmptyBag
    /\ timers = 0
    /\ chatMessages = {}
    /\ chatTail = ""
    /\ sends = 0
    /\ skipped = {}
    /\ accepted = 0
    /\ uploadSections = 0
    /\ stepTimers = [ research |-> 0, todo |-> 0 ]
    /\ last = Event("constructor", NoQuestion, EmptyString, "")

Init ==
    /\ initPc = "startWorkflow"
    /\ listening = FALSE
    /\ isInChatMode = FALSE
    /\ currentStep = 1
    /\ currentQuestionIndex = 0
    /\ questions = <<>>
    /\ responses = <<>>
    /\ calls = EmptyBag
    /\ timers = 0
    /\ chatMessages = {}
    /\ chatTail = ""
    /\ sends = 0
    /\ skipped = {}
    /\ accepted = 0
    /\ uploadSections = 0
    /\ stepTimers = [ research |-> 0, todo |-> 0 ]
    /\ last = Event("constructor", NoQuestion, EmptyString, "")

\* ----------------------------------------------------------------- init

\* init() resumes after await this.startWorkflow(): startWorkflow's catch
\* swallows a failed fetch, then startChatMode (which has no await) and
\* setupEventListeners run to completion.
startChatModeWith(list, reply) ==
    /\ initPc = "startWorkflow"
    /\ initPc' = "done"
    /\ isInChatMode' = TRUE
    /\ currentQuestionIndex' = 0
    /\ addChatMessages(<<WelcomeMessage, "What is your company name?">>)
    /\ questions' = list
    /\ listening' = TRUE
    /\ last' = Event("startChatMode", NoQuestion, EmptyString, reply)
    /\ UNCHANGED << uploadSections, stepTimers >>
    /\ UNCHANGED << currentStep, responses, calls, timers, sends, skipped, accepted >>

\* startChatMode with the list of lines 59-101.
startChatMode(reply) == startChatModeWith(Step1Questions, reply)

\* ------------------------------------------------------- sendChatMessage

\* handleStep1Question up to its first await: the invocation captures
\* questions[index] and validateResponse issues the fetch.
handleStep1Question(cs, index, message) ==
    cs (+) SetToBag({ Call("validate", index, message, <<>>) })

\* An invocation that reads this.questions[this.currentQuestionIndex] again
\* when it is used (mutant of currentQuestion).
currentQuestionReadAgain(c) == questions[currentQuestionIndex + 1]

\* Line 151: the const currentQuestion of the invocation c.
currentQuestion(c) == questions[c.q + 1]

\* Lines 215-220: the body of the request to /api/validate-response.
validateRequest(c) ==
    [ message |-> c.message,
      question |-> currentQuestion(c).question,
      question_type |-> currentQuestion(c).type ]

\* A routing test that still counts the position just past the last
\* question as a question (mutant of inStep1Questions).
inStep1QuestionsOrJustPast == currentQuestionIndex <= Len(questions)

\* Line 119: "If we're still in Step 1 questions".
inStep1Questions == currentQuestionIndex < Len(questions)

\* sendChatMessage up to its first await, for the text raw in #chat-input.
sendChatMessageBody(raw) ==
    LET message == Trim(raw) IN
    /\ listening
    /\ IF message = EmptyString
       THEN /\ last' = Event("ignored", NoQuestion, message, "")
            /\ UNCHANGED calls
       ELSE /\ BagCardinality(calls) < MaxPending
            /\ IF inStep1Questions
               THEN /\ calls' = handleStep1Question(calls, currentQuestionIndex, message)
                    /\ last' = Event("submit", currentQuestionIndex, message, "")
               ELSE /\ calls' = calls (+) SetToBag({ Call("chat", NoQuestion, message, <<>>) })
                    /\ last' = Event("chat", NoQuestion, message, "")
    /\ UNCHANGED << uploadSections, stepTimers >>
    /\ UNCHANGED << initPc, listening, isInChatMode, currentStep, currentQuestionIndex,
                    questions, responses, timers, chatMessages, chatTail, skipped, accepted >>

\* One of the at most MaxSends messages of a run.
sendChatMessage(raw) ==
    /\ sends < MaxSends
    /\ sends' = sends + 1
    /\ sendChatMessageBody(raw)

\* ---------------------------------------------------- handleStep1Question

\* A validateResponse that reads a field the reply does not have, so that
\* handleStep1Question never sees an acceptance (mutant of validateResponse).
validateResponseWrongField(reply) == reply \notin ValidatorReplies

\* A catch that returns true, so that a validator error accepts the answer
\* (mutant of validateResponse).
validateResponseFailOpen(reply) == reply \notin { "is_valid_false", "is_valid_missing" }

\* validateResponse after its await: the value handleStep1Question tests with
\* !isValid.  data.is_valid is undefined when the reply has no such field; a
\* fetch that rejects or a body that is not JSON lands in the catch.
validateResponse(reply) ==
    CASE reply = "is_valid_true"    -> TRUE
      [] reply = "is_valid_false"   -> FALSE
      [] reply = "is_valid_missing" -> FALSE
      [] reply = "not_json"         -> FALSE
      [] reply = "network_error"    -> FALSE

\* dependsResponse !== nextQuestion.depends_value, dependsResponse being
\* undefined when this.responses has no such key.
dependsMismatch(r, next) ==
    \/ ~HasKey(r, next.depends_on)
    \/ Value(r, next.depends_on) # next.depends_value

\* nextQuestion.conditional && nextQuestion.depends_on
isConditional(next) == next.conditional /\ next.depends_on # ""

\* generatePMMPlan up to its await: the loading message and the fetch of
\* /api/generate-plan.
generatePMMPlan(cs) ==
    /\ addChatMessages(<<LoadingMessage>>)
    /\ calls' = cs (+) SetToBag({ Call("plan", NoQuestion, EmptyString, <<>>) })

\* saveStep1Responses up to its first await: the fetch of /api/submit-response
\* for the first entry of Object.entries(this.responses); with no entry the
\* loop body never runs and generatePMMPlan follows at once.
saveStep1Responses(cs, r) ==
    IF r = <<>>
    THEN generatePMMPlan(cs)
    ELSE /\ calls' = cs (+) SetToBag({ Call("save", NoQuestion, EmptyString, r) })
         /\ UNCHANGED << chatMessages, chatTail >>

\* A refusal that still moves to the next question (mutant of rejectAnswer).
rejectAnswerAndAdvance(c) ==
    /\ addChatMessages(<<ClarifyMessage, questions[c.q + 1].question>>)
    /\ calls' = calls (-) SetToBag({c})
    /\ currentQuestionIndex' = currentQuestionIndex + 1
    /\ UNCHANGED << responses, skipped, accepted >>

\* A refusal that moves the position back to the question it asks again
\* (mutant of rejectAnswer).
rejectAnswerAndRewind(c) ==
    /\ addChatMessages(<<ClarifyMessage, questions[c.q + 1].question>>)
    /\ calls' = calls (-) SetToBag({c})
    /\ currentQuestionIndex' = c.q
    /\ UNCHANGED << responses, skipped, accepted >>

\* Lines 156-163: the answer is refused and currentQuestion is asked again.
rejectAnswer(c) ==
    /\ addChatMessages(<<ClarifyMessage, currentQuestion(c).question>>)
    /\ calls' = calls (-) SetToBag({c})
    /\ UNCHANGED << responses, currentQuestionIndex, skipped, accepted >>

\* Lines 165-205: the answer is stored under currentQuestion.id and the index
\* moves on, past a conditional question whose dependency does not match.
acceptAnswer(c) ==
    LET rest == calls (-) SetToBag({c})
        stored == Put(responses, currentQuestion(c).id, c.message)
        index == currentQuestionIndex + 1
    IN  /\ responses' = stored
        /\ accepted' = accepted + 1
        /\ IF index < Len(questions)
           THEN LET nextQuestion == questions[index + 1] IN
                IF isConditional(nextQuestion) /\ dependsMismatch(stored, nextQuestion)
                THEN /\ currentQuestionIndex' = index + 1
                     /\ skipped' = skipped \cup {index}
                     /\ IF index + 1 < Len(questions)
                        THEN /\ calls' = handleStep1Question(rest, index + 1, EmptyString)
                             /\ UNCHANGED << chatMessages, chatTail >>
                        ELSE saveStep1Responses(rest, stored)
                ELSE /\ currentQuestionIndex' = index
                     /\ addChatMessages(<<nextQuestion.question>>)
                     /\ calls' = rest
                     /\ UNCHANGED skipped
           ELSE /\ currentQuestionIndex' = index
                /\ saveStep1Responses(rest, stored)
                /\ UNCHANGED skipped

\* handleStep1Question resumes after await this.validateResponse(...).
validateReply(c, reply) ==
    /\ c.pc = "validate"
    /\ IF validateResponse(reply) THEN acceptAnswer(c) ELSE rejectAnswer(c)
    /\ last' = Event("validateReply", c.q, c.message, reply)
    /\ UNCHANGED << uploadSections, stepTimers >>
    /\ UNCHANGED << initPc, listening, isInChatMode, currentStep, questions, timers, sends >>

\* saveStep1Responses resumes after await fetch('/api/submit-response'): the
\* next entry is sent, or, after the last entry or in the catch, the loop is
\* over and generatePMMPlan starts.
saveReply(c, reply) ==
    /\ c.pc = "save"
    /\ LET rest == calls (-) SetToBag({c}) IN
       IF reply = "response" /\ Len(c.entries) > 1
       THEN /\ calls' = rest (+) SetToBag({ Call("save", NoQuestion, EmptyString, Tail(c.entries)) })
            /\ UNCHANGED << chatMessages, chatTail >>
       ELSE generatePMMPlan(rest)
    /\ last' = Event("saveReply", NoQuestion, EmptyString, reply)
    /\ UNCHANGED << uploadSections, stepTimers >>
    /\ UNCHANGED << initPc, listening, isInChatMode, currentStep, currentQuestionIndex,
                    questions, responses, timers, sends, skipped, accepted >>

\* A catch that starts the questions over when the plan cannot be generated
\* (mutant of planReply).
planReplyStartingOver(c, reply) ==
    /\ c.pc = "plan"
    /\ calls' = calls (-) SetToBag({c})
    /\ IF reply = "plan"
       THEN /\ addChatMessages(<<PlanMessage>>)
            /\ timers' = timers + 1
            /\ UNCHANGED currentQuestionIndex
       ELSE /\ addChatMessages(<<FallbackMessage>>)
            /\ currentQuestionIndex' = 0
            /\ UNCHANGED timers
    /\ last' = Event("planReply", NoQuestion, EmptyString, reply)
    /\ UNCHANGED << uploadSections, stepTimers >>
    /\ UNCHANGED << initPc, listening, isInChatMode, currentStep, questions, responses,
                    sends, skipped, accepted >>

\* generatePMMPlan resumes after await fetch('/api/generate-plan'): the plan is
\* shown and the step-2 timer is set, or the catch shows the fallback message
\* (formatMessage throws on an undefined data.plan, inside the try).
planReply(c, reply) ==
    /\ c.pc = "plan"
    /\ calls' = calls (-) SetToBag({c})
    /\ IF reply = "plan"
       THEN /\ addChatMessages(<<PlanMessage>>)
            /\ timers' = timers + 1
       ELSE /\ addChatMessages(<<FallbackMessage>>)
            /\ UNCHANGED timers
    /\ last' = Event("planReply", NoQuestion, EmptyString, reply)
    /\ UNCHANGED << uploadSections, stepTimers >>
    /\ UNCHANGED << initPc, listening, isInChatMode, currentStep, currentQuestionIndex,
                    questions, responses, sends, skipped, accepted >>

\* The setTimeout callback of generatePMMPlan (lines 275-284).
planTimeout ==
    /\ timers > 0
    /\ timers' = timers - 1
    /\ currentStep' = 2
    /\ addChatMessages(<<Step2Message>>)
    /\ uploadSections' = uploadSections + 1
    /\ UNCHANGED stepTimers
    /\ last' = Event("planTimeout", NoQuestion, EmptyString, "")
    /\ UNCHANGED << initPc, listening, isInChatMode, currentQuestionIndex, questions,
                    responses, calls, sends, skipped, accepted >>

\* sendChatMessage resumes after await fetch('/api/chat'): the reply is shown,
\* or the catch shows the apology (formatMessage throws on an undefined
\* data.response, inside the try).
chatReply(c, reply) ==
    /\ c.pc = "chat"
    /\ calls' = calls (-) SetToBag({c})
    /\ IF reply = "response"
       THEN addChatMessages(<<ChatResponseMessage>>)
       ELSE addChatMessages(<<ApologyMessage>>)
    /\ last' = Event("chatReply", NoQuestion, c.message, reply)
    /\ UNCHANGED << uploadSections, stepTimers >>
    /\ UNCHANGED << initPc, listening, isInChatMode, currentStep, currentQuestionIndex,
                    questions, responses, timers, sends, skipped, accepted >>

\* ---------------------------------------------------------------- step 2

\* The variables of step 1 and its chat, which step 2 leaves alone.
step1vars ==
    << initPc, listening, isInChatMode, currentQuestionIndex, questions, responses,
       timers, sends, skipped, accepted >>

\* uploadSection.remove() when querySelector finds a section.
removeUploadSection(n) == IF n > 0 THEN n - 1 ELSE 0

\* A click on "Upload Document": uploadPersonaDocument up to its await, with
\* or without a file chosen in #persona-file.
uploadPersonaDocument(file) ==
    /\ uploadSections > 0
    /\ IF ~file
       THEN /\ addChatMessages(<<SelectFileMessage>>)
            /\ last' = Event("uploadNoFile", NoQuestion, EmptyString, "")
            /\ UNCHANGED calls
       ELSE /\ BagCardinality(calls) < MaxPending
            /\ calls' = calls (+) SetToBag({ Call("upload", NoQuestion, EmptyString, <<>>) })
            /\ last' = Event("upload", NoQuestion, EmptyString, "")
            /\ UNCHANGED << chatMessages, chatTail >>
    /\ UNCHANGED << step1vars, currentStep, uploadSections, stepTimers >>

\* uploadPersonaDocument resumes after await fetch('/api/upload-persona-
\* document'): on any JSON body the section is removed and
\* conductCompetitorResearch runs up to its await; otherwise the catch.
uploadReply(c, reply) ==
    /\ c.pc = "upload"
    /\ IF reply = "json"
       THEN /\ addChatMessages(<<UploadedMessage, ResearchingMessage>>)
            /\ uploadSections' = removeUploadSection(uploadSections)
            /\ calls' = (calls (-) SetToBag({c})) (+)
                            SetToBag({ Call("research", NoQuestion, EmptyString, <<>>) })
       ELSE /\ addChatMessages(<<UploadErrorMessage>>)
            /\ calls' = calls (-) SetToBag({c})
            /\ UNCHANGED uploadSections
    /\ last' = Event("uploadReply", NoQuestion, EmptyString, reply)
    /\ UNCHANGED << step1vars, currentStep, stepTimers >>

\* conductCompetitorResearch resumes after await fetch('/api/conduct-
\* competitor-research'): on any JSON body the results text is shown (the
\* string concatenation of line 487 does not throw on an undefined
\* research_results) and the step-3 timer is set; otherwise the catch.
researchReply(c, reply) ==
    /\ c.pc = "research"
    /\ calls' = calls (-) SetToBag({c})
    /\ CASE reply = "research_results" ->
               /\ addChatMessages(<<ResearchResultsMessage>>)
               /\ stepTimers' = [ stepTimers EXCEPT !.research = @ + 1 ]
         [] reply = "research_results_missing" ->
               /\ addChatMessages(<<ResearchUndefinedMessage>>)
               /\ stepTimers' = [ stepTimers EXCEPT !.research = @ + 1 ]
         [] OTHER ->
               /\ addChatMessages(<<ResearchErrorMessage>>)
               /\ UNCHANGED stepTimers
    /\ last' = Event("researchReply", NoQuestion, EmptyString, reply)
    /\ UNCHANGED << step1vars, currentStep, uploadSections >>

\* The setTimeout callback of conductCompetitorResearch (lines 494-497).
researchTimeout ==
    /\ stepTimers.research > 0
    /\ stepTimers' = [ stepTimers EXCEPT !.research = @ - 1 ]
    /\ addChatMessages(<<Step3Message>>)
    /\ currentStep' = 3
    /\ last' = Event("researchTimeout", NoQuestion, EmptyString, "")
    /\ UNCHANGED << step1vars, calls, uploadSections >>

\* A click on "I don't have personas": sayNoPersonas, with
\* showCustomerResearchTodo up to its await.
sayNoPersonas ==
    /\ uploadSections > 0
    /\ BagCardinality(calls) < MaxPending
    /\ calls' = calls (+) SetToBag({ Call("todo", NoQuestion, EmptyString, <<>>) })
    /\ uploadSections' = removeUploadSection(uploadSections)
    /\ last' = Event("sayNoPersonas", NoQuestion, EmptyString, "")
    /\ UNCHANGED << step1vars, currentStep, stepTimers, chatMessages, chatTail >>

\* showCustomerResearchTodo resumes after await fetch('/api/get-customer-
\* research-todo'): the list is shown and the timer is set, or the catch
\* (formatMessage throws on an undefined data.todo_list, inside the try).
todoReply(c, reply) ==
    /\ c.pc = "todo"
    /\ calls' = calls (-) SetToBag({c})
    /\ IF reply = "todo_list"
       THEN /\ addChatMessages(<<TodoMessage>>)
            /\ stepTimers' = [ stepTimers EXCEPT !.todo = @ + 1 ]
       ELSE /\ addChatMessages(<<TodoErrorMessage>>)
            /\ UNCHANGED stepTimers
    /\ last' = Event("todoReply", NoQuestion, EmptyString, reply)
    /\ UNCHANGED << step1vars, currentStep, uploadSections >>

\* The setTimeout callback of showCustomerResearchTodo (lines 460-462).
todoTimeout ==
    /\ stepTimers.todo > 0
    /\ stepTimers' = [ stepTimers EXCEPT !.todo = @ - 1 ]
    /\ addChatMessages(<<AskResearchMessage>>)
    /\ last' = Event("todoTimeout", NoQuestion, EmptyString, "")
    /\ UNCHANGED << step1vars, currentStep, calls, uploadSections >>

\* ------------------------------------------------------- specification

Next ==
    \/ \E reply \in WorkflowReplies : startChatMode(reply)
    \/ \E raw \in RawInputs(currentQuestionIndex) : sendChatMessage(raw)
    \/ \E c \in BagToSet(calls) : \E reply \in ValidatorReplies : validateReply(c, reply)
    \/ \E c \in BagToSet(calls) : \E reply \in SinkReplies : saveReply(c, reply)
    \/ \E c \in BagToSet(calls) : \E reply \in PlanReplies : planReply(c, reply)
    \/ \E c \in BagToSet(calls) : \E reply \in ChatReplies : chatReply(c, reply)
    \/ planTimeout

Spec == Init /\ [][Next]_vars

\* ----------------------------------------- specification with step 2

\* The actions of Spec and those of step 2; fetches settle and setTimeout
\* callbacks run in any order.
StepNext ==
    \/ Next
    \/ \E file \in BOOLEAN : uploadPersonaDocument(file)
    \/ \E c \in BagToSet(calls) : \E reply \in UploadReplies : uploadReply(c, reply)
    \/ \E c \in BagToSet(calls) : \E reply \in ResearchReplies : researchReply(c, reply)
    \/ researchTimeout
    \/ sayNoPersonas
    \/ \E c \in BagToSet(calls) : \E reply \in TodoReplies : todoReply(c, reply)
    \/ todoTimeout

StepSpec == Init /\ [][StepNext]_vars

\* ------------------------------------- specification with another list

\* A list for the same handleStep1Question, with two conditional questions
\* in a row and a question after them.
GeneralQuestions ==
    << Step1Questions[1],
       Step1Questions[5],
       Step1Questions[6],
       Question("product_audience", "Who is the specific product for?", "text",
                <<>>, FALSE, TRUE, "company_scope", Str("Specific segment/product")),
       Step1Questions[2] >>

\* What the user may have typed when the question at index is on display.
GeneralInputs(index) ==
    { <<" ">>, <<" ", "Acme", " ">> } \cup
    IF index < Len(GeneralQuestions) /\ GeneralQuestions[index + 1].id = "company_scope"
    THEN { <<" ", "Whole company">>, <<"Specific segment/product", " ">> }
    ELSE {}

GeneralNext ==
    \/ \E reply \in WorkflowReplies : startChatModeWith(GeneralQuestions, reply)
    \/ \E raw \in GeneralInputs(currentQuestionIndex) : sendChatMessage(raw)
    \/ \E c \in BagToSet(calls) : \E reply \in ValidatorReplies : validateReply(c, reply)
    \/ \E c \in BagToSet(calls) : \E reply \in SinkReplies : saveReply(c, reply)
    \/ \E c \in BagToSet(calls) : \E reply \in PlanReplies : planReply(c, reply)
    \/ \E c \in BagToSet(calls) : \E reply \in ChatReplies : chatReply(c, reply)
    \/ planTimeout

GeneralSpec == Init /\ [][GeneralNext]_vars

\* ------------------------------------------- specification with fairness

\* Messages typed after the questions are over, in the runs of FairSpec.
MaxChats == 1

\* The non-empty texts among RawInputs(index).
Answers(index) == { raw \in RawInputs(index) : Trim(raw) # EmptyString }

\* The user answers the question on display, any number of times.
keepAnswering(raw) ==
    /\ currentQuestionIndex < Len(questions)
    /\ sendChatMessageBody(raw)
    /\ UNCHANGED sends

\* A message typed once the questions are over; these are counted.
chatAfterwards(raw) ==
    /\ currentQuestionIndex >= Len(questions)
    /\ sends < MaxChats
    /\ sendChatMessage(raw)

FairNext ==
    \/ \E reply \in WorkflowReplies : startChatMode(reply)
    \/ \E raw \in Answers(currentQuestionIndex) : keepAnswering(raw)
    \/ \E raw \in Answers(currentQuestionIndex) : chatAfterwards(raw)
    \/ \E c \in BagToSet(calls) : \E reply \in ValidatorReplies : validateReply(c, reply)
    \/ \E c \in BagToSet(calls) : \E reply \in SinkReplies : saveReply(c, reply)
    \/ \E c \in BagToSet(calls) : \E reply \in PlanReplies : planReply(c, reply)
    \/ \E c \in BagToSet(calls) : \E reply \in ChatReplies : chatReply(c, reply)
    \/ planTimeout

\* The user keeps submitting non-empty answers while a question is on display.
UserAnswers == \E raw \in Answers(currentQuestionIndex) : keepAnswering(raw)

\* A pending fetch settles and the awaiting invocation resumes.
FetchSettles ==
    \/ \E reply \in WorkflowReplies : startChatMode(reply)
    \/ \E c \in BagToSet(calls) : \E reply \in ValidatorReplies : validateReply(c, reply)
    \/ \E c \in BagToSet(calls) : \E reply \in SinkReplies : saveReply(c, reply)
    \/ \E c \in BagToSet(calls) : \E reply \in PlanReplies : planReply(c, reply)
    \/ \E c \in BagToSet(calls) : \E reply \in ChatReplies : chatReply(c, reply)

\* The validator accepts a submitted answer.
ValidatorAccepts == \E c \in BagToSet(calls) : validateReply(c, "is_valid_true")

\* The event loop runs every settled fetch and every expired timer; the user
\* keeps answering and the validator does not refuse for ever.
FairSpec ==
    /\ Init
    /\ [][FairNext]_vars
    /\ WF_vars(FetchSettles)
    /\ WF_vars(planTimeout)
    /\ WF_vars(UserAnswers)
    /\ SF_vars(ValidatorAccepts)

\* ------------------------------------------------------------ vocabulary

\* The fixed phase is over: sendChatMessage (line 119) routes to /api/chat.
PhaseComplete == questions # <<>> /\ currentQuestionIndex >= Len(questions)

\* The question at (0-based) index i is on display in #chat-messages.
Presented(i) == questions[i + 1].question \in chatMessages

\* Number of suspended invocations that are at the await named pc.
NumCalls(cs, pc) ==
    LET at == { c \in BagToSet(cs) : c.pc = pc }
    IN  BagCardinality([ c \in at |-> CopiesIn(c, cs) ])

\* handleStep1Question invocations that have not returned, finalization included.
Step1InProgress(cs) == NumCalls(cs, "validate") + NumCalls(cs, "save") + NumCalls(cs, "plan")

IsBlank(s) == \A k \in 1..Len(s) : s[k] = " "

\* The step just taken was handleStep1Question resuming on a validator reply.
Replied == last.op = "validateReply"

Accepted == Replied /\ last.reply = "is_valid_true"

Rejected == Replied /\ last.reply # "is_valid_true"

\* The step just taken started saveStep1Responses/generatePMMPlan.
Completing == Accepted /\ PhaseComplete

\* ---------------------------------------------------------------- claims

\* C1: if the answer stored for company_scope is "Whole company", the
\* product_name question has not been presented and responses has no
\* product_name key; if it is "Specific segment/product" and the fixed phase
\* is complete, the product_name question has been presented.
C1_ScopeDecidesProductName ==
    /\ ( HasKey(responses, "company_scope")
         /\ Value(responses, "company_scope") = Str("Whole company") )
       => ( ~Presented(IndexOf("product_name")) /\ ~HasKey(responses, "product_name") )
    /\ ( HasKey(responses, "company_scope")
         /\ Value(responses, "company_scope") = Str("Specific segment/product")
         /\ PhaseComplete )
       => Presented(IndexOf("product_name"))

\* C2: a step in which the validator refuses a submission leaves
\* currentQuestionIndex and responses as they were and re-asks the text of
\* the question the submission was made to; a step in which it accepts one
\* stores exactly that answer under that question's id and moves
\* currentQuestionIndex by one, or by two when the question after it is a
\* conditional question whose dependency does not match.
C2_Step ==
    Replied' =>
        LET question == questions[last'.q + 1] IN
        IF Rejected'
        THEN /\ currentQuestionIndex' = currentQuestionIndex
             /\ responses' = responses
             /\ accepted' = accepted
             /\ chatTail' = question.question
        ELSE /\ responses' = Put(responses, question.id, last'.message)
             /\ accepted' = accepted + 1
             /\ \/ currentQuestionIndex' = currentQuestionIndex + 1
                \/ /\ currentQuestionIndex' = currentQuestionIndex + 2
                   /\ currentQuestionIndex + 2 <= Len(questions)
                   /\ isConditional(questions[currentQuestionIndex + 2])
                   /\ dependsMismatch(responses', questions[currentQuestionIndex + 2])
                   /\ questions[currentQuestionIndex + 2].question \notin chatMessages'

\* C2: every step treats a refusal and an acceptance as C2_Step says.
C2_RejectionLeavesStateUnchanged == [][C2_Step]_vars

\* C2 witness: an answer was refused, and a later one was accepted with the
\* skip of product_name.
C2_Witness ==
    /\ Accepted
    /\ ClarifyMessage \in chatMessages
    /\ PhaseComplete
    /\ skipped = { IndexOf("product_name") }

\* C3: currentQuestionIndex and responses change only in a step that handles
\* a validator reply with is_valid true, which stores the submitted answer;
\* a reply that is an error, is unparsable or has no positive is_valid is
\* handled as a refusal.
C3_Step ==
    /\ ( currentQuestionIndex' # currentQuestionIndex \/ responses' # responses
         \/ accepted' # accepted )
       => ( /\ Accepted'
            /\ responses' = Put(responses, questions[last'.q + 1].id, last'.message) )
    /\ Rejected'
       => ( /\ currentQuestionIndex' = currentQuestionIndex
            /\ responses' = responses
            /\ ClarifyMessage \in chatMessages' )

\* C3: every step is fail-closed as C3_Step says.
C3_FailClosed == [][C3_Step]_vars

\* C3 witness: a validator call has just failed and the question it was about
\* is still the current one, unanswered.
C3_Witness ==
    /\ Replied
    /\ last.reply \in { "network_error", "not_json", "is_valid_missing" }
    /\ currentQuestionIndex = last.q
    /\ ~HasKey(responses, questions[last.q + 1].id)
    /\ chatTail = questions[last.q + 1].question

\* C4: when the fixed phase completes, 6 answers have been accepted, or 5 with
\* product_name skipped, and the keys of responses are exactly the ids of the
\* questions that were presented.
C4_CompletesAfterFiveOrSix ==
    Completing =>
        /\ \/ accepted = Len(questions) /\ skipped = {}
           \/ accepted = Len(questions) - 1 /\ skipped = { IndexOf("product_name") }
        /\ Keys(responses) =
               { questions[i + 1].id : i \in { j \in 0..(Len(questions) - 1) : Presented(j) } }

\* C5: at most one handleStep1Question invocation is in progress.
C5_OneSubmitAtATime == Step1InProgress(calls) <= 1

\* C6: when the question at index i is presented or current, every question
\* before it has a stored answer or was skipped on a false dependency.
C6_NothingPassedOver ==
    \A i \in 0..(Len(questions) - 1) :
        ( Presented(i) \/ i = currentQuestionIndex ) =>
            \A j \in 0..(i - 1) :
                \/ HasKey(responses, questions[j + 1].id)
                \/ /\ j \in skipped
                   /\ isConditional(questions[j + 1])
                   /\ dependsMismatch(responses, questions[j + 1])

\* C7: a key of responses is never removed and its value never changes.
C7_Step ==
    \A id \in Keys(responses) :
        HasKey(responses', id) /\ Value(responses', id) = Value(responses, id)

\* C7: every step keeps every stored answer, as C7_Step says.
C7_AnswersNeverChange == [][C7_Step]_vars

\* C8: no validator request is outstanding for an empty or white-space
\* message to a required question, and a send of such a message leaves
\* currentQuestionIndex, responses and the outstanding requests as they were.
C8_NoBlankValidation ==
    \A c \in BagToSet(calls) :
        ( c.pc = "validate" /\ questions[c.q + 1].required ) => ~IsBlank(c.message)

C8_Step ==
    ( /\ sends' = sends + 1
      /\ IsBlank(last'.message)
      /\ ~PhaseComplete
      /\ questions[currentQuestionIndex + 1].required ) =>
        /\ calls' = calls
        /\ currentQuestionIndex' = currentQuestionIndex
        /\ responses' = responses

\* C8: no blank message to a required question reaches the validator, and
\* every send of one is without effect, as C8_Step says.
C8_EmptyRejectedLocally == []C8_NoBlankValidation /\ [][C8_Step]_vars

\* C8 witness: an empty message was just sent to a required question.
C8_Witness ==
    /\ last.op = "ignored"
    /\ ~PhaseComplete
    /\ questions[currentQuestionIndex + 1].required
    /\ accepted > 0

\* C9: a send of an empty message while the current question is not required
\* records the answer and moves past the question, with no validator request.
C9_Step ==
    ( /\ sends' = sends + 1
      /\ IsBlank(last'.message)
      /\ ~PhaseComplete
      /\ ~questions[currentQuestionIndex + 1].required )
    => /\ HasKey(responses', questions[currentQuestionIndex + 1].id)
       /\ currentQuestionIndex' > currentQuestionIndex
       /\ NumCalls(calls', "validate") = NumCalls(calls, "validate")

\* C9: every send of an empty message to an optional question records it,
\* as C9_Step says.
C9_EmptyAcceptedWhenOptional == [][C9_Step]_vars

\* C10: once the fixed phase is complete, a user message goes to /api/chat
\* and starts no validator call, and responses and currentQuestionIndex stay
\* as they are.
C10_Step ==
    PhaseComplete =>
        /\ responses' = responses
        /\ currentQuestionIndex' = currentQuestionIndex
        /\ NumCalls(calls', "validate") <= NumCalls(calls, "validate")
        /\ ( sends' = sends + 1 /\ ~IsBlank(last'.message) )
           => NumCalls(calls', "chat") = NumCalls(calls, "chat") + 1

\* C10: every step after completion is as C10_Step says.
C10_HandoffIsTerminal == [][C10_Step]_vars

\* C11: across every step currentQuestionIndex does not decrease, and once the
\* fixed phase is over it stays over, so it becomes over at most once.
C11_Step ==
    /\ currentQuestionIndex' >= currentQuestionIndex
    /\ PhaseComplete => PhaseComplete'

C11_PositionNeverDecreases == [][C11_Step]_vars

\* The fixed phase is over and a refusal of an earlier question has just
\* arrived and asked that question again.
C11_Witness ==
    /\ PhaseComplete
    /\ Rejected
    /\ last.q < currentQuestionIndex
    /\ chatTail = questions[last.q + 1].question

\* A /api/generate-plan request has been issued: generatePMMPlan shows the
\* loading message right before its fetch.
PlanRequested == LoadingMessage \in chatMessages

\* The step issues a /api/generate-plan request.
IssuesPlan == NumCalls(calls', "plan") > NumCalls(calls, "plan")

\* The step issues the first /api/submit-response request of a save loop.
StartsSaving == last'.op = "validateReply" /\ NumCalls(calls', "save") > NumCalls(calls, "save")

\* The suspended saveStep1Responses invocation c resumes in the step.
Resumes(c) == CopiesIn(c, calls') < CopiesIn(c, calls)

\* e is what remains of r after some of its first entries.
Suffix(e, r) == Len(e) <= Len(r) /\ e = SubSeq(r, Len(r) - Len(e) + 1, Len(r))

\* C12: /api/generate-plan is requested once in a run, and only when every
\* entry of responses has been submitted to /api/submit-response.  The save
\* loop sends the entries in order and moves on after a successful return, so
\* every entry has been submitted exactly when the request for the last key
\* of responses has returned successfully.
C12_Step ==
    IssuesPlan =>
        /\ ~PlanRequested
        /\ last'.op = "saveReply"
        /\ last'.reply = "response"
        /\ \E c \in BagToSet(calls) :
               /\ c.pc = "save"
               /\ Resumes(c)
               /\ c.entries = << responses[Len(responses)] >>

C12_PlanOnceAfterAllSaved == [][C12_Step]_vars

\* C13 (states): at most one /api/submit-response request is outstanding, none
\* while questions are still being asked, and the entries still to send are
\* the rest of responses in the order the answers were accepted.
C13_OneAtATimeInOrder ==
    /\ NumCalls(calls, "save") <= 1
    /\ NumCalls(calls, "save") > 0 => PhaseComplete
    /\ \A c \in BagToSet(calls) : c.pc = "save" => Suffix(c.entries, responses)

\* C13 (steps): the save loop is started once, with every key of responses,
\* and it goes on to the next key after each request until none is left.
C13_Step ==
    /\ StartsSaving =>
           /\ ~PlanRequested
           /\ NumCalls(calls, "save") = 0
           /\ Call("save", NoQuestion, EmptyString, responses') \in BagToSet(calls')
    /\ \A c \in BagToSet(calls) :
           c.pc = "save" /\ Resumes(c) /\ Len(c.entries) > 1 =>
               Call("save", NoQuestion, EmptyString, Tail(c.entries)) \in BagToSet(calls')

\* C13: exactly one /api/submit-response request for each key of responses,
\* one at a time, in acceptance order, and none before the fixed phase is over.
C13_SinkOncePerAnswer == []C13_OneAtATimeInOrder /\ [][C13_Step]_vars

\* The step is sendChatMessage with a non-empty message.
Sent == last'.op \in { "submit", "chat" }

\* The step is a fetch of /api/submit-response that rejects.
SinkFails == last'.op = "saveReply" /\ last'.reply = "network_error"

\* The step is generatePMMPlan landing in its catch.
PlanFails == last'.op = "planReply" /\ last'.reply # "plan"

\* C14 (steps), the part that holds: a failed /api/submit-response or
\* /api/generate-plan call leaves responses and currentQuestionIndex alone,
\* the fixed phase stays over, and a message sent afterwards goes to
\* /api/chat.
C14_NothingLostOrReopened ==
    /\ SinkFails \/ PlanFails =>
           /\ responses' = responses
           /\ currentQuestionIndex' = currentQuestionIndex
           /\ PhaseComplete'
    /\ PhaseComplete /\ FallbackMessage \in chatMessages /\ Sent =>
           /\ last'.op = "chat"
           /\ calls' = calls (+) SetToBag({ Call("chat", NoQuestion, last'.message, <<>>) })

\* What each failure shows: the catch of generatePMMPlan shows the fallback
\* message; the catch of saveStep1Responses shows nothing and the plan is
\* requested next.
C14_Shown ==
    /\ PlanFails => chatTail' = FallbackMessage
    /\ SinkFails => IssuesPlan /\ chatTail' = LoadingMessage

C15_NeverInvokedAtEnd ==
    \A c \in BagToSet(calls) : c.pc = "validate" => c.q >= 0 /\ c.q < Len(questions)

\* C15 (steps): a non-empty message sent once the fixed phase is over starts
\* no handleStep1Question invocation; it goes to /api/chat and leaves
\* currentQuestionIndex and responses unchanged.
C15_Step ==
    PhaseComplete /\ Sent =>
        /\ last'.op = "chat"
        /\ calls' = calls (+) SetToBag({ Call("chat", NoQuestion, last'.message, <<>>) })
        /\ NumCalls(calls', "validate") = NumCalls(calls, "validate")
        /\ currentQuestionIndex' = currentQuestionIndex
        /\ responses' = responses

C15_ClosedStep ==
    PhaseComplete /\ Sent =>
        /\ chatTail' = ApologyMessage
        /\ calls' = calls
        /\ currentQuestionIndex' = currentQuestionIndex
        /\ responses' = responses

DependencyFalse(r, q) == isConditional(q) /\ dependsMismatch(r, q)

\* C16 (states): no validator call is outstanding with the prompt of a
\* question whose dependency condition is false, and responses has no entry
\* for such a question.
C16_NoSkippedQuestionValidated ==
    /\ \A c \in BagToSet(calls) :
           c.pc = "validate" => ~DependencyFalse(responses, questions[c.q + 1])
    /\ \A k \in 1..Len(questions) :
           HasKey(responses, questions[k].id) => ~DependencyFalse(responses, questions[k])

\* C16 (steps): handling one accepted answer moves the position by at most
\* the length of the list and ends in the same step, with at most as many
\* questions skipped.
C16_Step ==
    last'.op = "validateReply" =>
        /\ currentQuestionIndex' - currentQuestionIndex <= Len(questions)
        /\ Cardinality(skipped' \ skipped) <= Len(questions)

\* C16: for a list with several conditional questions in a row and a
\* conditional question that is not last, skipping is bounded by the length
\* of the list, the validator is never called with the prompt of a question
\* whose dependency condition is false, and responses never gets an entry
\* for such a question.
C16_SkippingValidatorFree == []C16_NoSkippedQuestionValidated /\ [][C16_Step]_vars

\* C17 (states): the request of every outstanding validator call carries the
\* prompt and the kind of the question the invocation was made for.
C17_RequestNamesItsQuestion ==
    \A c \in BagToSet(calls) :
        c.pc = "validate" =>
            /\ c.q >= 0 /\ c.q < Len(questions)
            /\ validateRequest(c).message = c.message
            /\ validateRequest(c).question = questions[c.q + 1].question
            /\ validateRequest(c).question_type = questions[c.q + 1].type

\* C17 (steps): a submission is made for the question that is current when
\* it is sent, and an accepted answer is stored under the id of the question
\* it was validated against, whatever currentQuestionIndex is by then.
C17_Step ==
    /\ last'.op = "submit" =>
           /\ last'.q = currentQuestionIndex
           /\ calls' = calls (+) SetToBag({ Call("validate", currentQuestionIndex,
                                                  last'.message, <<>>) })
    /\ last'.op = "validateReply" /\ last'.reply = "is_valid_true" =>
           /\ Call("validate", last'.q, last'.message, <<>>) \in BagToSet(calls)
           /\ responses' = Put(responses, questions[last'.q + 1].id, last'.message)

\* C17: each validator call carries the prompt and kind of the question that
\* was current when the submission was made, and an accepted answer is stored
\* under the id of that question even if currentQuestionIndex has changed.
C17_StoredUnderValidatedQuestion == []C17_RequestNamesItsQuestion /\ [][C17_Step]_vars

\* An accepting reply has just arrived for a question that was no longer
\* current, and the answer is in responses under that question's id.
C17_Witness ==
    /\ Accepted
    /\ last.q + 1 < currentQuestionIndex
    /\ last.q + 1 \notin skipped
    /\ HasKey(responses, questions[last.q + 1].id)
    /\ Value(responses, questions[last.q + 1].id) = last.message

\* C18 (states): once a user message has been taken, init() has gone through
\* startChatMode: the list is set and the first question is on display.
C18_StartedFirst ==
    sends > 0 \/ calls # EmptyBag \/ responses # <<>> =>
        /\ initPc = "done"
        /\ isInChatMode
        /\ questions = Step1Questions
        /\ Presented(0)

\* C18 (steps): startChatMode runs once, before any message, whatever
\* /api/start-workflow replied; it sets the list and position 0, shows the
\* first question and only then are the listeners installed.
C18_Step ==
    /\ last'.op = "startChatMode" =>
           /\ initPc = "startWorkflow" /\ ~listening /\ sends = 0
           /\ last'.reply \in WorkflowReplies
           /\ currentQuestionIndex' = 0
           /\ questions' = Step1Questions
           /\ Presented(0)'
           /\ isInChatMode' /\ listening'
    /\ initPc = "done" => initPc' = "done" /\ last'.op # "startChatMode"
    /\ last'.op \in { "submit", "chat", "ignored" } => initPc = "done" /\ Presented(0)

\* C18: no user message is processed before the list is set, the position is
\* 0 and the first question is presented; the position is set to 0 once in
\* a run; a failed /api/start-workflow does not keep the wizard from
\* collecting.
C18_StartPrecedesSubmit == []C18_StartedFirst /\ [][C18_Step]_vars

\* /api/start-workflow has just failed and the wizard is collecting: the
\* listeners are installed and the first question is on display.
C18_Witness ==
    /\ last.op = "startChatMode"
    /\ last.reply = "network_error"
    /\ listening /\ isInChatMode
    /\ currentQuestionIndex = 0
    /\ ~PhaseComplete
    /\ Presented(0)

\* C19: in every reachable state, whatever the interleaving,
\* 0 <= currentQuestionIndex <= questions.length.
C19_IndexWithinList ==
    /\ 0 <= currentQuestionIndex
    /\ currentQuestionIndex <= Len(questions)

\* Finalization has been started: saveStep1Responses is running or
\* generatePMMPlan has been called.
FinalizationStarted == NumCalls(calls, "save") > 0 \/ PlanRequested

\* C20: if the user keeps submitting non-empty answers, every validator call
\* returns and the validator does not refuse for ever, then the fixed phase
\* is eventually over for good with finalization started, whatever the sink
\* and the plan generator reply.
C20_PhaseEventuallyCompletes == <>[](PhaseComplete /\ FinalizationStarted)

\* The fixed phase is over and finalization has started, after at least one
\* refused answer and a failed /api/submit-response call.
C20_Witness ==
    /\ PhaseComplete
    /\ FinalizationStarted
    /\ ClarifyMessage \in chatMessages
    /\ last.op = "saveReply"
    /\ last.reply = "network_error"

\* C21: currentStep never decreases; it becomes 2 only in the timer callback
\* that a successful /api/generate-plan reply has set, and stays as it is
\* when plan generation fails; it becomes 3 only in the timer callback that
\* a successful /api/conduct-competitor-research reply has set.
C21_Step ==
    /\ currentStep' >= currentStep
    /\ currentStep' # currentStep =>
           \/ currentStep' = 2 /\ last'.op = "planTimeout"
           \/ currentStep' = 3 /\ last'.op = "researchTimeout"
    /\ timers' > timers => last'.op = "planReply" /\ last'.reply = "plan"
    /\ PlanFails => currentStep' = currentStep /\ timers' = timers
    /\ stepTimers'.research > stepTimers.research =>
           last'.op = "researchReply" /\ last'.reply = "research_results"

C21_StepCounterFollowsSuccess == [][C21_Step]_vars

====
